---------------------------- MODULE Spec2Model ----------------------------
(***************************************************************************)
(* A model of scripts/generate_icon.py: the icon renderer and packager.    *)
(*                                                                         *)
(* Three specifications are given.  Spec is one run of the whole program,  *)
(* main(), against a small file system, a set of installed fonts and an    *)
(* iconutil whose result is chosen by the environment.  SpecRerun runs the *)
(* program again on what the run before left.  SpecRender applies          *)
(* render_icon alone to canvas sizes, font references and measured text    *)
(* bounding boxes drawn from bounded sets.                                 *)
(*                                                                         *)
(* File names are sequences of characters, so that what a name encodes     *)
(* can be parsed.  Pixel coordinates that the program computes with true   *)
(* division by 2 are kept doubled (x2 = 2 * x), which is exact.            *)
(***************************************************************************)
EXTENDS Integers, Sequences, FiniteSets

(***************************************************************************)
(* Bounds of the model.                                                    *)
(***************************************************************************)
\* Invocations of the program in one behaviour.
MaxRuns == 2
\* The measured bounding box's left and top lie in -MaxOffset .. MaxOffset.
MaxOffset == 2
\* The measured bounding box is 1 .. MaxText pixels wide and high.
MaxText == 3
\* SpecRender renders canvases of 1 .. MaxCanvas pixels besides ICON_SIZES'.
MaxCanvas == 4

(***************************************************************************)
(* Program constants.                                                      *)
(***************************************************************************)
\* The size list with the "@2x" of its second entry forgotten.
ICON_SIZES_typo ==
    << <<<<"i","c","o","n","_","1","6","x","1","6",".","p","n","g">>, 16>>,
       <<<<"i","c","o","n","_","1","6","x","1","6",".","p","n","g">>, 32>>,
       <<<<"i","c","o","n","_","3","2","x","3","2",".","p","n","g">>, 32>>,
       <<<<"i","c","o","n","_","3","2","x","3","2","@","2","x",".","p","n","g">>, 64>>,
       <<<<"i","c","o","n","_","1","2","8","x","1","2","8",".","p","n","g">>, 128>>,
       <<<<"i","c","o","n","_","1","2","8","x","1","2","8","@","2","x",".","p","n","g">>, 256>>,
       <<<<"i","c","o","n","_","2","5","6","x","2","5","6",".","p","n","g">>, 256>>,
       <<<<"i","c","o","n","_","2","5","6","x","2","5","6","@","2","x",".","p","n","g">>, 512>>,
       <<<<"i","c","o","n","_","5","1","2","x","5","1","2",".","p","n","g">>, 512>>,
       <<<<"i","c","o","n","_","5","1","2","x","5","1","2","@","2","x",".","p","n","g">>, 1024>> >>

ICON_SIZES ==
    << <<<<"i","c","o","n","_","1","6","x","1","6",".","p","n","g">>, 16>>,
       <<<<"i","c","o","n","_","1","6","x","1","6","@","2","x",".","p","n","g">>, 32>>,
       <<<<"i","c","o","n","_","3","2","x","3","2",".","p","n","g">>, 32>>,
       <<<<"i","c","o","n","_","3","2","x","3","2","@","2","x",".","p","n","g">>, 64>>,
       <<<<"i","c","o","n","_","1","2","8","x","1","2","8",".","p","n","g">>, 128>>,
       <<<<"i","c","o","n","_","1","2","8","x","1","2","8","@","2","x",".","p","n","g">>, 256>>,
       <<<<"i","c","o","n","_","2","5","6","x","2","5","6",".","p","n","g">>, 256>>,
       <<<<"i","c","o","n","_","2","5","6","x","2","5","6","@","2","x",".","p","n","g">>, 512>>,
       <<<<"i","c","o","n","_","5","1","2","x","5","1","2",".","p","n","g">>, 512>>,
       <<<<"i","c","o","n","_","5","1","2","x","5","1","2","@","2","x",".","p","n","g">>, 1024>> >>

BG_COLOR == <<0, 0, 170>>

\* The candidate list of find_monospace_font, in its order.
candidates ==
    << "/System/Library/Fonts/SFMono-Bold.otf",
       "/System/Library/Fonts/Menlo.ttc",
       "/System/Library/Fonts/Monaco.dfont",
       "/Library/Fonts/Courier New Bold.ttf",
       "/System/Library/Fonts/Courier.dfont" >>

\* Python's None, the "no candidate found" sentinel.
None == "None"

\* The messages the program prints, each a sequence of the parts its
\* f-string joins.
MsgWarning == <<"Warning: No monospace font found, using default">>

MsgGenerated(filename, size) == <<"  Generated ", filename, " (", size, "x", size, ")">>

MsgCreating(icns_path) == <<"  Creating ", icns_path>>

MsgError(stderr_text) == <<"Error running iconutil: ", stderr_text>>

MsgCreated(icns_path) == <<"  App icon created: ", icns_path>>

\* The uncaught exception's traceback, written by the interpreter.
MsgTraceback(exc) == <<"Traceback (most recent call last): ", exc>>

icns_path == "Sources/BlueScreenOfDeath/Resources/AppIcon.icns"

(***************************************************************************)
(* find_monospace_font.  existing is the set of paths that exist on disk.  *)
(***************************************************************************)
os_path_exists(path, existing) == path \in existing

RECURSIVE FindFrom(_, _)
FindFrom(i, existing) ==
    IF i > Len(candidates) THEN None
    ELSE IF os_path_exists(candidates[i], existing) THEN candidates[i]
    ELSE FindFrom(i + 1, existing)

\* A resolver that keeps looking after a hit, and so returns the last
\* existing candidate.
RECURSIVE FindLastFrom(_, _, _)
FindLastFrom(i, existing, found) ==
    IF i > Len(candidates) THEN found
    ELSE FindLastFrom(i + 1, existing,
                      IF os_path_exists(candidates[i], existing)
                      THEN candidates[i] ELSE found)

find_monospace_font_last(existing) == FindLastFrom(1, existing, None)

find_monospace_font(existing) == FindFrom(1, existing)

(***************************************************************************)
(* render_icon.                                                            *)
(***************************************************************************)
Max(a, b) == IF a >= b THEN a ELSE b

\* int(v) for the rational v = num / den, den > 0: truncation toward zero.
IntTrunc(num, den) ==
    IF num >= 0 THEN num \div den ELSE -((-num) \div den)

\* round(v) for the rational v = num / den >= 0, den > 0: to the nearest
\* integer, a tie to the even one.
Round(num, den) ==
    LET q == num \div den
        r == num % den
    IN  IF 2 * r > den \/ (2 * r = den /\ q % 2 = 1) THEN q + 1 ELSE q

\* A font size rounded to the nearest integer instead of truncated.
font_size_rounded(size) == Max(Round(size * 45, 100), 8)

\* max(int(size * 0.45), 8).  The double 0.45 exceeds 45/100 by less than
\* 2^-54 and the fractional part of size * 45/100 is a multiple of 1/20, so
\* for the sizes of this model the float product truncates as the rational.
font_size(size) == Max(IntTrunc(size * 45, 100), 8)

\* ImageFont.truetype(font_path, font_size).  A path is opened and parsed:
\* an unreadable or corrupt file raises OSError.  Anything that is not a
\* path is taken for a file object and read, which None does not support.
truetype(font_path, loadable) ==
    IF font_path = None THEN "AttributeError"
    ELSE IF loadable THEN "none"
    ELSE "OSError"

\* try: truetype(...) except (OSError, IOError): load_default()
load_font(font_path, loadable) ==
    LET raised == truetype(font_path, loadable) IN
    IF raised = "none" THEN [raised |-> "none", font |-> "truetype"]
    ELSE IF raised \in {"OSError", "IOError"}
         THEN [raised |-> "none", font |-> "default"]
    ELSE [raised |-> raised, font |-> "unset"]

\* The measured bounding boxes (left, top, right, bottom) of the text drawn
\* at (0, 0): the glyphs may start left of, or above, the nominal origin.
textbbox ==
    { <<l, t, l + w, t + h>> :
        l \in -MaxOffset .. MaxOffset, t \in -MaxOffset .. MaxOffset,
        w \in 1 .. MaxText, h \in 1 .. MaxText }

\* An origin that centres the nominal anchor: the box's own offset is lost.
text_origin_no_offset(size, bbox) ==
    [x2 |-> size - (bbox[3] - bbox[1]),
     y2 |-> size - (bbox[4] - bbox[2])]

\* x = (size - text_w) / 2 - bbox[0], y likewise; both doubled.
text_origin(size, bbox) ==
    LET text_w == bbox[3] - bbox[1]
        text_h == bbox[4] - bbox[2]
    IN  [x2 |-> (size - text_w) - 2 * bbox[1],
         y2 |-> (size - text_h) - 2 * bbox[2]]

\* draw.text((x, y), ...): the glyphs go to the pixel int(x), int(y), so
\* the box measured at (0, 0) lands at int(x) + left, int(y) + top.
draw_text(origin, bbox) ==
    LET px == IntTrunc(origin.x2, 2)
        py == IntTrunc(origin.y2, 2)
    IN  <<px + bbox[1], py + bbox[2], px + bbox[3], py + bbox[4]>>

NoBox == <<0, 0, 0, 0>>

\* render_icon up to the loading of the font: the canvas allocated, the
\* font size asked for, the font loaded or the exception raised (and then
\* no image: width and height are 0).
render_canvas(size, font_path, loadable) ==
    LET loaded == load_font(font_path, loadable) IN
    [size |-> size, raised |-> loaded.raised,
     width |-> IF loaded.raised = "none" THEN size ELSE 0,
     height |-> IF loaded.raised = "none" THEN size ELSE 0,
     bg |-> BG_COLOR, font |-> loaded.font, font_size |-> font_size(size)]

\* The whole of render_icon: the canvas, and where the measured box of the
\* text lands on it.
render_icon(size, font_path, loadable, bbox) ==
    LET canvas == render_canvas(size, font_path, loadable) IN
    [canvas |-> canvas,
     drawn |-> IF canvas.raised = "none"
               THEN draw_text(text_origin(size, bbox), bbox) ELSE NoBox]

(***************************************************************************)
(* The file system under iconset_dir.  kind says what iconset_dir is; the  *)
(* directory's entries are a function from file names to what each holds.  *)
(***************************************************************************)
Png(w, h) == [type |-> "png", width |-> w, height |-> h]

\* A regular file that is no image (also a truncated, half-written PNG).
OtherFile == [type |-> "other", width |-> 0, height |-> 0]

NoFiles == [n \in {} |-> OtherFile]

Put(files, name, entry) ==
    [n \in DOMAIN files \cup {name} |-> IF n = name THEN entry ELSE files[n]]

\* os.makedirs that takes an existing directory for an error whatever
\* exist_ok says.
makedirs_strict(dirkind, exist_ok, fault) ==
    IF dirkind = "absent"
    THEN IF fault THEN [raised |-> "PermissionError", kind |-> "absent"]
         ELSE [raised |-> "none", kind |-> "dir"]
    ELSE [raised |-> "FileExistsError", kind |-> dirkind]

\* os.makedirs(iconset_dir, exist_ok): creates the directory (and its
\* parents) when absent, which the environment may refuse (fault); an
\* existing directory is accepted when exist_ok; an existing path that is
\* not a directory is always FileExistsError.
makedirs(dirkind, exist_ok, fault) ==
    IF dirkind = "absent"
    THEN IF fault THEN [raised |-> "PermissionError", kind |-> "absent"]
         ELSE [raised |-> "none", kind |-> "dir"]
    ELSE IF dirkind = "dir" /\ exist_ok
         THEN [raised |-> "none", kind |-> "dir"]
    ELSE [raised |-> "FileExistsError", kind |-> dirkind]

\* What the environment may do to one save: nothing, refuse to open the
\* file, or fail while the data is written (disk full), after which the
\* partial file is either left behind or removed by the image library.
SaveFaults == {"none", "open", "write_kept", "write_removed"}

\* A save that leaves a file that already exists as it is.
save_keep_existing(files, filename, img, fault) ==
    IF fault = "open"
    THEN [raised |-> "PermissionError", files |-> files]
    ELSE IF fault \in {"write_kept", "write_removed"}
    THEN [raised |-> "OSError",
          files |-> IF fault = "write_removed" /\ filename \notin DOMAIN files
                    THEN files ELSE Put(files, filename, OtherFile)]
    ELSE [raised |-> "none",
          files |-> IF filename \in DOMAIN files THEN files
                    ELSE Put(files, filename, Png(img.width, img.height))]

\* img.save(out_path, "PNG"): opens out_path for writing, truncating what
\* was there, and encodes the image into it.
save(files, filename, img, fault) ==
    IF fault = "open"
    THEN [raised |-> "PermissionError", files |-> files]
    ELSE IF fault \in {"write_kept", "write_removed"}
    THEN [raised |-> "OSError",
          files |-> IF fault = "write_removed" /\ filename \notin DOMAIN files
                    THEN files ELSE Put(files, filename, OtherFile)]
    ELSE [raised |-> "none",
          files |-> Put(files, filename, Png(img.width, img.height))]

(***************************************************************************)
(* The state.                                                              *)
(***************************************************************************)
VARIABLES
    pc,            \* where main() is
    run,           \* which invocation of the program this is
    existing,      \* the font paths that exist on disk
    loadable,      \* whether an existing font file loads
    kind,          \* iconset_dir: "absent", "dir" or "file"
    iconset,       \* the entries of iconset_dir
    atStart,       \* kind and entries when this run started
    prevCompleted, \* whether the run before this one finished its loop
    font_path,     \* main's local
    k,             \* entries of ICON_SIZES the loop has finished
    written,       \* the file names saved by this run, in order
    rendered,      \* what the last call of render_icon gave
    stdout,        \* lines printed to standard output by this run
    stderr,        \* lines printed to standard error by this run
    calls,         \* invocations of iconutil by this run
    result,        \* the CompletedProcess of iconutil
    exit_status,   \* <<>> while running, <<status>> once exited
    error,         \* the exception that ended the run, or "none"
    rpc,           \* SpecRender: "input", then "done"
    rin,           \* SpecRender: the arguments of render_icon
    rout           \* SpecRender: what render_icon gave

envVars == <<existing, loadable>>

fsVars == <<kind, iconset>>

runVars == <<pc, run, atStart, prevCompleted, font_path, k, written, rendered,
             stdout, stderr, calls, result, exit_status, error>>

renderVars == <<rpc, rin, rout>>

vars == <<envVars, fsVars, runVars, renderVars>>

Names == {ICON_SIZES[i][1] : i \in 1 .. Len(ICON_SIZES)}

Sizes == {ICON_SIZES[i][2] : i \in 1 .. Len(ICON_SIZES)}

Candidates == {candidates[i] : i \in 1 .. Len(candidates)}

NoRender ==
    [size |-> 0, raised |-> "none", width |-> 0, height |-> 0, bg |-> BG_COLOR,
     font |-> "unset", font_size |-> 0]

NoResult == [returncode |-> 0, stderr |-> ""]

NoInput == [size |-> 0, font_path |-> None, loadable |-> FALSE, bbox |-> NoBox]

NoOutput == [canvas |-> NoRender, drawn |-> NoBox]

\* Entries a directory left by earlier work may hold: a file that is none
\* of ICON_SIZES' and an icon of an outdated size.
NotesTxt == <<"n","o","t","e","s",".","t","x","t">>

StaleEntries ==
    { <<NotesTxt, OtherFile>>,
      <<ICON_SIZES[1][1], Png(1024, 1024)>> }

FilesOf(entries) ==
    [n \in {e[1] : e \in entries} |-> (CHOOSE e \in entries : e[1] = n)[2]]

\* Every state the output directory may be in before the first run.
InitialDirs ==
    {[kind |-> "absent", files |-> NoFiles], [kind |-> "file", files |-> NoFiles]}
    \cup {[kind |-> "dir", files |-> FilesOf(es)] : es \in SUBSET StaleEntries}

\* The process starts: nothing printed, no local bound.
RunStart ==
    /\ pc = "Start"
    /\ font_path = "unset"
    /\ k = 0
    /\ written = <<>>
    /\ rendered = NoRender
    /\ stdout = <<>>
    /\ stderr = <<>>
    /\ calls = 0
    /\ result = NoResult
    /\ exit_status = <<>>
    /\ error = "none"

Init ==
    /\ existing \in SUBSET Candidates
    /\ loadable \in BOOLEAN
    /\ \E d \in InitialDirs :
          /\ kind = d.kind
          /\ iconset = d.files
          /\ atStart = d
    /\ run = 1
    /\ prevCompleted = FALSE
    /\ RunStart
    /\ rpc = "idle"
    /\ rin = NoInput
    /\ rout = NoOutput

\* An exception nobody catches: the interpreter prints the traceback and
\* exits with status 1.
Raise(exc) ==
    /\ pc' = "Aborted"
    /\ error' = exc
    /\ stderr' = Append(stderr, MsgTraceback(exc))
    /\ exit_status' = <<1>>

(***************************************************************************)
(* main(), one action per step.                                            *)
(***************************************************************************)
\* os.makedirs(iconset_dir, exist_ok=True)
PrepareDirectory ==
    /\ pc = "Start"
    /\ \E fault \in BOOLEAN :
          LET made == makedirs(kind, TRUE, fault) IN
          /\ kind' = made.kind
          /\ IF made.raised = "none"
             THEN /\ pc' = "DirectoryPrepared"
                  /\ UNCHANGED <<error, stderr, exit_status>>
             ELSE Raise(made.raised)
    /\ UNCHANGED <<envVars, iconset, run, atStart, prevCompleted, font_path, k,
                   written, rendered, stdout, calls, result, renderVars>>

\* font_path = find_monospace_font(), and the warning when there is none
ResolveFont ==
    /\ pc = "DirectoryPrepared"
    /\ font_path' = find_monospace_font(existing)
    /\ stderr' = IF font_path' = None THEN Append(stderr, MsgWarning) ELSE stderr
    /\ pc' = "FontResolved"
    /\ UNCHANGED <<envVars, fsVars, run, atStart, prevCompleted, k, written,
                   rendered, stdout, calls, result, exit_status, error,
                   renderVars>>

\* One iteration of the loop over ICON_SIZES: render, save, report.  The
\* file written records the image's size alone, so of render_icon the step
\* needs the canvas; where the text lands on it is SpecRender's.  With
\* keepGoing an iteration that fails is skipped instead of ending the run.
WriteStep(keepGoing) ==
    /\ pc = "FontResolved"
    /\ k < Len(ICON_SIZES)
    /\ LET filename == ICON_SIZES[k + 1][1]
           size == ICON_SIZES[k + 1][2]
           last == k + 1 = Len(ICON_SIZES)
           img == render_canvas(size, font_path, loadable)
       IN  \E fault \in SaveFaults :
              LET saved == save(iconset, filename, img, fault)
                  raised == IF img.raised # "none" THEN img.raised
                            ELSE saved.raised
              IN  /\ rendered' = img
                  /\ iconset' = IF img.raised # "none" THEN iconset
                                ELSE saved.files
                  /\ IF raised = "none"
                     THEN /\ written' = Append(written, filename)
                          /\ stdout' = Append(stdout, MsgGenerated(filename, size))
                          /\ k' = k + 1
                          /\ pc' = IF last THEN "ImagesWritten" ELSE pc
                          /\ UNCHANGED <<error, stderr, exit_status>>
                     ELSE IF keepGoing
                     THEN /\ k' = k + 1
                          /\ pc' = IF last THEN "ImagesWritten" ELSE pc
                          /\ UNCHANGED <<written, stdout, error, stderr,
                                         exit_status>>
                     ELSE /\ Raise(raised)
                          /\ UNCHANGED <<written, stdout, k>>
    /\ UNCHANGED <<envVars, kind, run, atStart, prevCompleted, font_path, calls,
                   result, renderVars>>

WriteImage_keep_going == WriteStep(TRUE)

WriteImage == WriteStep(FALSE)

\* print("Creating ..."), then subprocess.run(["iconutil", ...]): the
\* utility runs once and its exit code and stderr are captured, or it is
\* not installed and FileNotFoundError is raised.
InvokeBundleAt(places) ==
    /\ pc \in places
    /\ stdout' = Append(stdout, MsgCreating(icns_path))
    /\ \/ /\ \E rc \in {0, 1, 2}, text \in {"", "bad format"} :
                result' = [returncode |-> rc, stderr |-> text]
          /\ calls' = calls + 1
          /\ pc' = "BundleInvoked"
          /\ UNCHANGED <<error, stderr, exit_status>>
       \/ /\ Raise("FileNotFoundError")
          /\ UNCHANGED <<result, calls>>
    /\ UNCHANGED <<envVars, fsVars, run, atStart, prevCompleted, font_path, k,
                   written, rendered, renderVars>>

InvokeBundle_early == InvokeBundleAt({"FontResolved", "ImagesWritten"})

InvokeBundle == InvokeBundleAt({"ImagesWritten"})

\* A check that reports success whatever iconutil returned.
CheckResult_ignore ==
    /\ pc = "BundleInvoked"
    /\ stdout' = Append(stdout, MsgCreated(icns_path))
    /\ exit_status' = <<0>>
    /\ pc' = "Success"
    /\ UNCHANGED <<envVars, fsVars, run, atStart, prevCompleted, font_path, k,
                   written, rendered, stderr, calls, result, error, renderVars>>

\* if result.returncode != 0: print the error, sys.exit(1); else report the
\* bundle as created and fall off the end of main (exit status 0).
CheckResult ==
    /\ pc = "BundleInvoked"
    /\ IF result.returncode # 0
       THEN /\ stderr' = Append(stderr, MsgError(result.stderr))
            /\ exit_status' = <<1>>
            /\ pc' = "FatalFailure"
            /\ UNCHANGED stdout
       ELSE /\ stdout' = Append(stdout, MsgCreated(icns_path))
            /\ exit_status' = <<0>>
            /\ pc' = "Success"
            /\ UNCHANGED stderr
    /\ UNCHANGED <<envVars, fsVars, run, atStart, prevCompleted, font_path, k,
                   written, rendered, calls, result, error, renderVars>>

Terminal == {"Success", "FatalFailure", "Aborted"}

\* The program is run again (if __name__ == "__main__": main()), on the
\* file system the run before left and with the same fonts installed.
Rerun ==
    /\ pc \in Terminal
    /\ run < MaxRuns
    /\ run' = run + 1
    /\ prevCompleted' = (k = Len(ICON_SIZES))
    /\ atStart' = [kind |-> kind, files |-> iconset]
    /\ pc' = "Start"
    /\ font_path' = "unset"
    /\ k' = 0
    /\ written' = <<>>
    /\ rendered' = NoRender
    /\ stdout' = <<>>
    /\ stderr' = <<>>
    /\ calls' = 0
    /\ result' = NoResult
    /\ exit_status' = <<>>
    /\ error' = "none"
    /\ UNCHANGED <<envVars, fsVars, renderVars>>

\* One run of the program.
Next ==
    \/ PrepareDirectory
    \/ ResolveFont
    \/ WriteImage
    \/ InvokeBundle
    \/ CheckResult

Spec == Init /\ [][Next]_vars

\* Up to MaxRuns runs, one after the other.
NextRerun ==
    \/ PrepareDirectory
    \/ ResolveFont
    \/ WriteImage
    \/ InvokeBundle
    \/ CheckResult
    \/ Rerun

SpecRerun == Init /\ [][NextRerun]_vars

(***************************************************************************)
(* render_icon alone.                                                      *)
(***************************************************************************)
RenderSizes == Sizes \cup (1 .. MaxCanvas)

InitRender ==
    /\ existing = {}
    /\ loadable = FALSE
    /\ kind = "absent"
    /\ iconset = NoFiles
    /\ atStart = [kind |-> "absent", files |-> NoFiles]
    /\ run = 1
    /\ prevCompleted = FALSE
    /\ RunStart
    /\ rpc = "input"
    /\ rin \in [size : RenderSizes, font_path : {None, candidates[1]},
                loadable : BOOLEAN, bbox : textbbox]
    /\ rout = NoOutput

Render ==
    /\ rpc = "input"
    /\ rout' = render_icon(rin.size, rin.font_path, rin.loadable, rin.bbox)
    /\ rpc' = "done"
    /\ UNCHANGED <<envVars, fsVars, runVars, rin>>

NextRender == Render

SpecRender == InitRender /\ [][NextRender]_vars

(***************************************************************************)
(* What the formulas below speak of.                                       *)
(***************************************************************************)
N == Len(ICON_SIZES)

NameAt(i) == ICON_SIZES[i][1]

SizeAt(i) == ICON_SIZES[i][2]

\* The loop over ICON_SIZES has finished.
LoopDone == k = N

\* Some line of out has m among its parts.
HasPart(out, m) ==
    \E i \in 1 .. Len(out) : \E j \in 1 .. Len(out[i]) : out[i][j] = m

\* Some line of out starts with head.
HasLine(out, head) == \E i \in 1 .. Len(out) : out[i][1] = head

\* The state of the spec's state machine that a place of main() belongs to.
Phase(p) == IF p = "FontResolved" THEN "DirectoryPrepared" ELSE p

\* The value a file name encodes: "icon_" N "x" N ".png" encodes N and
\* "icon_" N "x" N "@2x.png" encodes 2 * N; any other name encodes 0.
DigitChars == <<"0", "1", "2", "3", "4", "5", "6", "7", "8", "9">>

IsDigit(c) == \E d \in 1 .. 10 : DigitChars[d] = c

DigitValue(c) == (CHOOSE d \in 1 .. 10 : DigitChars[d] = c) - 1

\* The number written from position i of name on, and where it ends.
RECURSIVE ParseNat(_, _, _)
ParseNat(name, i, acc) ==
    IF i <= Len(name) /\ IsDigit(name[i])
    THEN ParseNat(name, i + 1, 10 * acc + DigitValue(name[i]))
    ELSE [value |-> acc, next |-> i]

EncodedSize(name) ==
    IF Len(name) < 6 \/ SubSeq(name, 1, 5) # <<"i", "c", "o", "n", "_">>
    THEN 0
    ELSE LET first == ParseNat(name, 6, 0) IN
         IF first.next = 6 \/ first.next > Len(name) \/ name[first.next] # "x"
         THEN 0
         ELSE LET second == ParseNat(name, first.next + 1, 0)
                  rest == SubSeq(name, second.next, Len(name))
              IN  IF second.next = first.next + 1 \/ second.value # first.value
                  THEN 0
                  ELSE IF rest = <<".", "p", "n", "g">> THEN first.value
                  ELSE IF rest = <<"@", "2", "x", ".", "p", "n", "g">>
                       THEN 2 * first.value
                  ELSE 0

Abs(v) == IF v >= 0 THEN v ELSE -v

(***************************************************************************)
(* C1.                                                                     *)
(***************************************************************************)
\* C1: once iconutil has returned, main() can only check the result; when
\* the program has exited after a non-zero return code, the exit status is
\* 1, standard error holds the captured stderr text, no "App icon created"
\* line was printed and iconutil was invoked exactly once; when it has
\* exited after return code 0, the exit status is 0 and the "App icon
\* created" line names the bundle path.
C1_BundleOutcome ==
    /\ calls <= 1
    /\ pc = "BundleInvoked" => (calls = 1 /\ exit_status = <<>> /\ ENABLED CheckResult)
    /\ (calls = 1 /\ exit_status # <<>> /\ result.returncode # 0) =>
          /\ pc = "FatalFailure"
          /\ exit_status = <<1>>
          /\ HasPart(stderr, result.stderr)
          /\ ~HasLine(stdout, "  App icon created: ")
    /\ (calls = 1 /\ exit_status # <<>> /\ result.returncode = 0) =>
          /\ pc = "Success"
          /\ exit_status = <<0>>
          /\ \E i \in 1 .. Len(stdout) : stdout[i] = MsgCreated(icns_path)
    /\ pc \in {"Success", "FatalFailure"} => calls = 1

\* iconutil returned 1 with "bad format" on its stderr and the program has
\* exited.
C1_Witness ==
    /\ pc = "FatalFailure"
    /\ result = [returncode |-> 1, stderr |-> "bad format"]

(***************************************************************************)
(* C2.                                                                     *)
(***************************************************************************)
\* What holds of the order in every state: images are written only into a
\* directory that exists, the files written are the first k of ICON_SIZES
\* in list order, and iconutil has been invoked only with all of them
\* written.
C2_StateOrder ==
    /\ pc \in {"Start", "DirectoryPrepared", "FontResolved", "ImagesWritten",
               "BundleInvoked", "Success", "FatalFailure", "Aborted"}
    /\ pc # "Start" /\ error # "FileExistsError" /\ error # "PermissionError"
          => kind = "dir"
    /\ written # <<>> => kind = "dir"
    /\ k \in 0 .. N
    /\ written = [i \in 1 .. k |-> NameAt(i)]
    /\ Phase(pc) \in {"Start", "DirectoryPrepared"} => k < N
    /\ Phase(pc) \in {"ImagesWritten", "BundleInvoked", "Success", "FatalFailure"}
          => k = N
    /\ calls > 0 => (k = N /\ Phase(pc) \in {"BundleInvoked", "Success", "FatalFailure"})
    /\ Phase(pc) \in {"Start", "DirectoryPrepared", "ImagesWritten"} => calls = 0

\* What holds of the order in every step: the state machine moves forward
\* by one state or stays, the loop writes one more file or none, and a run
\* that has ended stays ended.
C2_StepOrder ==
    /\ \/ Phase(pc') = Phase(pc)
       \/ Phase(pc) = "Start" /\ Phase(pc') = "DirectoryPrepared"
       \/ Phase(pc) = "DirectoryPrepared" /\ Phase(pc') = "ImagesWritten"
       \/ Phase(pc) = "ImagesWritten" /\ Phase(pc') = "BundleInvoked"
       \/ Phase(pc) = "BundleInvoked" /\ Phase(pc') \in {"Success", "FatalFailure"}
       \/ /\ Phase(pc) \in {"Start", "DirectoryPrepared", "ImagesWritten"}
          /\ pc' = "Aborted"
    /\ pc = "FontResolved" => pc' # "DirectoryPrepared"
    /\ k' \in {k, k + 1}
    /\ Len(written') \in {Len(written), Len(written) + 1}
    /\ calls' \in {calls, calls + 1}

\* C2: every run follows Start -> DirectoryPrepared -> ImagesWritten ->
\* BundleInvoked -> {Success | FatalFailure} (or stops where an exception
\* is raised) with no state revisited: the directory is ensured before any
\* image is written, images are written one at a time in ICON_SIZES order,
\* and iconutil is invoked only after every entry has been written.
C2_Order == [](C2_StateOrder) /\ [][C2_StepOrder]_vars

\* A run that went through every state to Success.
C2_Witness == pc = "Success" /\ Len(written) = N /\ calls = 1

(***************************************************************************)
(* C3.                                                                     *)
(***************************************************************************)
\* Every entry of ICON_SIZES is on disk as an image of its size.
AllIconsWritten ==
    \A i \in 1 .. N :
        /\ NameAt(i) \in DOMAIN iconset
        /\ iconset[NameAt(i)] = Png(SizeAt(i), SizeAt(i))

\* C3 as claimed: when the loop has completed, whatever the directory held
\* before, it holds exactly the files named in ICON_SIZES, each an image
\* of the size paired with its name.
C3_ExactlyIconSizes ==
    LoopDone => (DOMAIN iconset = Names /\ AllIconsWritten)

\* C3 as amended: when the loop has completed, every file named in
\* ICON_SIZES is in the directory as an image of the size paired with its
\* name, and the only other files are those the directory held before the
\* run, unchanged; a directory that was absent or held none holds exactly
\* the files of ICON_SIZES.
C3_IconSizesAndOldFiles ==
    LoopDone =>
        /\ AllIconsWritten
        /\ DOMAIN iconset = Names \cup DOMAIN atStart.files
        /\ \A n \in DOMAIN atStart.files \ Names : iconset[n] = atStart.files[n]
        /\ DOMAIN atStart.files \subseteq Names => DOMAIN iconset = Names

\* The loop completed in a directory that held a foreign file and an icon
\* of an outdated size.
C3_Witness ==
    /\ LoopDone
    /\ NotesTxt \in DOMAIN atStart.files
    /\ NameAt(1) \in DOMAIN atStart.files
    /\ atStart.files[NameAt(1)] = Png(1024, 1024)

(***************************************************************************)
(* C4.                                                                     *)
(***************************************************************************)
\* C4 as claimed: for every size of ICON_SIZES the font size asked for is
\* max(round(d * 0.45), 8).
C4_RoundedFontSize ==
    (rpc = "done" /\ rin.size \in Sizes) =>
        rout.canvas.font_size = Max(Round(rin.size * 45, 100), 8)

\* C4 as amended: the font size asked for is max(floor(d * 0.45), 8): it is
\* at least 8, and when above 8 it is the integer f with
\* f <= d * 0.45 < f + 1, and it is 8 only when d * 0.45 < 9.
C4_TruncatedFontSize ==
    rpc = "done" =>
        LET f == rout.canvas.font_size
            d == rin.size
        IN  /\ f >= 8
            /\ f > 8 => (100 * f <= 45 * d /\ 45 * d < 100 * (f + 1))
            /\ f = 8 => 45 * d < 900

\* The 64-pixel icon: 64 * 0.45 = 28.8 is truncated to 28, not rounded.
C4_Witness == rpc = "done" /\ rin.size = 64 /\ rout.canvas.font_size = 28

(***************************************************************************)
(* C5.                                                                     *)
(***************************************************************************)
\* C5: when no candidate font exists (font_path is None) or the font does
\* not load, every call of render_icon still returns an image of the size
\* asked for, filled with the background colour and drawn with the default
\* font, and the run is not ended by the font.
C5_FontFallback ==
    (rendered.size # 0 /\ (font_path = None \/ ~loadable)) =>
        /\ rendered.raised = "none"
        /\ rendered.width = rendered.size
        /\ rendered.height = rendered.size
        /\ rendered.bg = BG_COLOR
        /\ rendered.font = "default"
        /\ error = "none" \/ error \in {"PermissionError", "OSError", "FileNotFoundError"}

(***************************************************************************)
(* C6.                                                                     *)
(***************************************************************************)
\* The path main() got is the first candidate that exists, or None exactly
\* when none exists.
C6_Result ==
    font_path # "unset" =>
        /\ font_path = None <=> existing = {}
        /\ existing # {} =>
              \E i \in 1 .. Len(candidates) :
                  /\ font_path = candidates[i]
                  /\ candidates[i] \in existing
                  /\ \A j \in 1 .. i - 1 : candidates[j] \notin existing

\* Resolving the font raises nothing and leaves the file system as it was.
C6_Step ==
    pc = "DirectoryPrepared" =>
        /\ pc' = "FontResolved"
        /\ error' = "none"
        /\ UNCHANGED <<existing, loadable, kind, iconset>>

\* C6: for every subset of the candidate paths that exists on disk,
\* find_monospace_font returns the existing path with the smallest index,
\* None exactly when no candidate exists, and neither raises an error nor
\* changes the file system.
C6_FirstExisting == [](C6_Result) /\ [][C6_Step]_vars

\* The third and fifth candidates exist and the third was returned.
C6_Witness ==
    /\ existing = {candidates[3], candidates[5]}
    /\ font_path = candidates[3]

(***************************************************************************)
(* C7.                                                                     *)
(***************************************************************************)
\* C7: for every canvas size and every measured bounding box, with zero or
\* non-zero left and top, the box of the drawn text has its horizontal
\* centre within 1 pixel of the canvas's, and its vertical centre likewise
\* (centres are compared doubled: left + right against size).
C7_Centered ==
    (rpc = "done" /\ rout.canvas.raised = "none") =>
        /\ Abs((rout.drawn[1] + rout.drawn[3]) - rin.size) <= 2
        /\ Abs((rout.drawn[2] + rout.drawn[4]) - rin.size) <= 2

\* A box that starts 2 pixels right of and 2 pixels above the origin, and
\* is wider than the 1-pixel canvas it was drawn on.
C7_Witness ==
    /\ rpc = "done"
    /\ rout.canvas.raised = "none"
    /\ rin.size = 1
    /\ rin.bbox = <<2, -2, 5, -1>>

C9_State ==
    /\ \A i \in 1 .. k :
          /\ NameAt(i) \in DOMAIN iconset
          /\ iconset[NameAt(i)] = Png(SizeAt(i), SizeAt(i))
    /\ Len(written) = k
    /\ pc = "Aborted" =>
          /\ exit_status = <<1>>
          /\ calls = 0
          /\ ~HasLine(stdout, "  App icon created: ")
          /\ error \in {"FileExistsError", "PermissionError", "OSError"} => k < N
          /\ ~ENABLED Next

\* The step in which the exception is raised writes no image, invokes
\* nothing, reports nothing (a failing directory or image step prints
\* nothing at all) and leaves the files written before as they are.
C9_Step ==
    pc' = "Aborted" =>
        /\ k' = k
        /\ written' = written
        /\ calls' = calls
        /\ ~HasLine(stdout', "  App icon created: ")
        /\ pc # "ImagesWritten" => stdout' = stdout
        /\ \A i \in 1 .. k :
              /\ NameAt(i) \in DOMAIN iconset'
              /\ iconset'[NameAt(i)] = iconset[NameAt(i)]

\* C9: when creating the directory or writing the k-th image fails, the
\* run ends there: no later image is written, iconutil is never invoked,
\* success is never reported, and the files written for the entries before
\* k stay on disk unchanged.
C9_AbortKeepsFiles == [](C9_State) /\ [][C9_Step]_vars

\* The write of the fourth image failed after three were written.
C9_Witness ==
    /\ pc = "Aborted"
    /\ error = "OSError"
    /\ k = 3
    /\ written = <<NameAt(1), NameAt(2), NameAt(3)>>

(***************************************************************************)
(* C10.                                                                    *)
(***************************************************************************)
\* C10: the files a run has written are pairwise distinct (a completed
\* loop has written Len(ICON_SIZES) = 10 different files, none over
\* another), and each is an image of the size its name encodes:
\* icon_NxN.png of N and icon_NxN@2x.png of 2 * N pixels.
C10_NamesEncodeSizes ==
    /\ \A i, j \in 1 .. Len(written) : written[i] = written[j] => i = j
    /\ \A i \in 1 .. Len(written) :
          /\ EncodedSize(written[i]) > 0
          /\ written[i] \in DOMAIN iconset
          /\ iconset[written[i]] = Png(EncodedSize(written[i]), EncodedSize(written[i]))
    /\ LoopDone => Cardinality({written[i] : i \in 1 .. Len(written)}) = 10

\* All ten files written, the last one, icon_512x512@2x.png, 1024 pixels.
C10_Witness ==
    /\ LoopDone
    /\ Len(written) = 10
    /\ EncodedSize(written[10]) = 1024
    /\ iconset[written[10]] = Png(1024, 1024)

=============================================================================
